---- MODULE Spec2Model ----
(***************************************************************************)
(* Model of scripts/sendPgmetrics.ts: the pgmetrics send loop.  One        *)
(* logical thread runs loop(): admission check (shouldSend), collection    *)
(* (runPgmetrics), read + delete of the temp file, upload-target request   *)
(* (getUploadUrl), payload transfer (uploadFile), confirmation             *)
(* (finishedUpload).  The remote service, the subprocess and the file      *)
(* system are the environment: their answers are chosen with \E.           *)
(***************************************************************************)
EXTENDS Integers, Sequences, FiniteSets, TLC

VARIABLES pc, cfg, iter, files, tmpFile, fileData, raw, url, log, adm, tgt, sent

vars == <<pc, cfg, iter, files, tmpFile, fileData, raw, url, log, adm, tgt, sent>>

----------------------------------------------------------------------------
(* Bounds of the model *)

\* number of loop iterations explored
MaxIter == 2
\* Date.now() ranges over 1..MaxNow
MaxNow == 2
\* nextCollectionAt ranges over 0..MaxNca
MaxNca == 4
\* upload URLs the service may hand out: 1..NumUrls
NumUrls == 2
\* snapshots are strings of at most MaxLen characters
MaxLen == 1

----------------------------------------------------------------------------
(* Program constants (milliseconds) *)

LongWait == 30000
DefaultWait == 2500
DenyYield == 250
ShortWait == 1000

----------------------------------------------------------------------------
(* Values exchanged with the environment *)

Nows == 1..MaxNow
NcaVals == 0..MaxNca
Urls == 1..NumUrls
\* HTTP statuses a fetch() can resolve with; response.ok is 200..299
Statuses == {200, 299, 300, 403, 404, 429, 500}

\* A parsed (or unparseable) JSON text: a response body, or the message of
\* an Error handed to JSON.parse.  kind "scalar" stands for every JSON value
\* that is neither null nor an object with the fields read here (numbers,
\* strings, booleans, arrays): reading a property of it gives undefined.
NonObj(k) ==
  [kind |-> k, hasNca |-> FALSE, nca |-> 0, hasError |-> FALSE, hasReason |-> FALSE]

Obj(hasNca, nca, hasError, hasReason) ==
  [kind |-> "object", hasNca |-> hasNca, nca |-> nca,
   hasError |-> hasError, hasReason |-> hasReason]

Bodies ==
  {NonObj(k) : k \in {"unparseable", "null", "scalar"}}
  \cup {Obj(FALSE, 0, e, r) : e \in BOOLEAN, r \in BOOLEAN}
  \cup {Obj(TRUE, n, e, FALSE) : n \in NcaVals, e \in BOOLEAN}

\* fetch() either rejects (fail, body = the error's message) or resolves
AdmResponses ==
  {[fail |-> TRUE, status |-> 0, body |-> b] : b \in Bodies}
  \cup {[fail |-> FALSE, status |-> s, body |-> b] : s \in Statuses, b \in Bodies}

Ok(status) == status >= 200 /\ status <= 299

Max(a, b) == IF a >= b THEN a ELSE b

----------------------------------------------------------------------------
(* shouldSend: the admission check (lines 85-136) *)

\* response.json().catch(() => dflt): the parsed body, or dflt when the body
\* does not parse
JsonOr(body, dflt) == IF body.kind = "unparseable" THEN dflt ELSE body

\* reading a property of null throws a TypeError; of anything else it does not
ReadThrows(data) == data.kind = "null"

\* JavaScript truthiness of data.nextCollectionAt: undefined and 0 are falsy
NcaTruthy(data) == data.kind = "object" /\ data.hasNca /\ data.nca # 0

\* the message of a TypeError is plain text, not JSON
TypeErrorMsg == NonObj("unparseable")

Proceed == [exc |-> FALSE, msg |-> TypeErrorMsg, ok |-> TRUE, sleeps |-> <<>>]
Deny(ms) == [exc |-> FALSE, msg |-> TypeErrorMsg, ok |-> FALSE, sleeps |-> <<ms>>]
Throw(m) == [exc |-> TRUE, msg |-> m, ok |-> FALSE, sleeps |-> <<>>]

RateLimitWait_NoFloor(nca, now) == nca - now

\* Math.max(0, nextCollectionAt - Date.now())
RateLimitWait(nca, now) == Max(0, nca - now)

\* line 107: data.nextCollectionAt ? Math.max(...) : 2500
WaitTime429(data, now) ==
  IF NcaTruthy(data) THEN RateLimitWait(data.nca, now) ELSE DefaultWait

\* the try block, lines 87-118
ShouldSendTry(r, now) ==
  IF r.fail THEN Throw(r.body)
  ELSE IF r.status = 403 THEN
    LET data == JsonOr(r.body, Obj(FALSE, 0, TRUE, FALSE))
    IN IF ReadThrows(data) THEN Throw(TypeErrorMsg) ELSE Deny(LongWait)
  ELSE IF r.status = 404 THEN
    LET data == JsonOr(r.body, Obj(FALSE, 0, TRUE, FALSE))
    IN IF ReadThrows(data) THEN Throw(TypeErrorMsg) ELSE Deny(LongWait)
  ELSE IF r.status = 429 THEN
    LET data == JsonOr(r.body, Obj(FALSE, 0, FALSE, FALSE))
    IN IF ReadThrows(data) THEN Throw(TypeErrorMsg) ELSE Deny(WaitTime429(data, now))
  ELSE IF ~Ok(r.status) THEN
    LET data == JsonOr(r.body, Obj(FALSE, 0, TRUE, FALSE))
    IN IF ReadThrows(data) THEN Throw(TypeErrorMsg) ELSE Deny(DefaultWait)
  ELSE Proceed

\* the catch block, lines 119-135: JSON.parse(errorMessage) may throw (inner
\* catch), parsed?.nextCollectionAt tolerates null
ShouldSendCatch(msg, now) ==
  IF NcaTruthy(msg) THEN Deny(RateLimitWait(msg.nca, now)) ELSE Deny(DefaultWait)

shouldSend_NoCatch(r, now) == ShouldSendTry(r, now)

shouldSend(r, now) ==
  LET t == ShouldSendTry(r, now)
  IN IF t.exc THEN ShouldSendCatch(t.msg, now) ELSE t


----------------------------------------------------------------------------
(* The upload handshake clients (lines 138-201) *)

\* body of the upload-target response; url 0 is the empty string
TgtBody(k, hasUrl, u) == [kind |-> k, hasUrl |-> hasUrl, url |-> u]

TgtBodies ==
  {TgtBody(k, FALSE, 0) : k \in {"unparseable", "null", "scalar", "object"}}
  \cup {TgtBody("object", TRUE, u) : u \in 0..NumUrls}

TgtResponses ==
  {[fail |-> TRUE, status |-> 0, body |-> TgtBody("unparseable", FALSE, 0)]}
  \cup {[fail |-> FALSE, status |-> s, body |-> b] : s \in Statuses, b \in TgtBodies}

\* fetch() of the PUT and of /finished-upload: rejects or resolves
PlainResponses ==
  {[fail |-> TRUE, status |-> 0]} \cup {[fail |-> FALSE, status |-> s] : s \in Statuses}

\* the try block of getUploadUrl, lines 140-163; the result is the url, or 0
\* for false and for the empty string (both falsy at line 271)
GetUploadUrlTry(r) ==
  IF r.fail THEN [exc |-> TRUE, url |-> 0]
  ELSE IF r.status = 403 \/ r.status = 404 \/ ~Ok(r.status) THEN
    IF r.body.kind = "null" THEN [exc |-> TRUE, url |-> 0] ELSE [exc |-> FALSE, url |-> 0]
  ELSE IF r.body.kind \in {"unparseable", "null"} THEN [exc |-> TRUE, url |-> 0]
  ELSE IF r.body.kind = "object" /\ r.body.hasUrl THEN [exc |-> FALSE, url |-> r.body.url]
  ELSE [exc |-> FALSE, url |-> 0]

getUploadUrl_NoCatch(r) == GetUploadUrlTry(r)

\* lines 138-168: every exception becomes false
getUploadUrl(r) ==
  LET t == GetUploadUrlTry(r)
  IN IF t.exc THEN [exc |-> FALSE, url |-> 0] ELSE t

\* lines 170-182: response.ok, or false when fetch rejects
uploadFile(r) == IF r.fail THEN FALSE ELSE Ok(r.status)

\* lines 184-201: response.ok, or false when fetch rejects
finishedUpload(r) == IF r.fail THEN FALSE ELSE Ok(r.status)

----------------------------------------------------------------------------
(* Snapshots *)

Chars == {"a", "e2"}

\* "e2" stands for a character of two UTF-8 bytes
CharBytes(c) == IF c = "a" THEN 1 ELSE 2

Payloads == UNION {[1..n -> Chars] : n \in 0..MaxLen}

RECURSIVE ByteLength(_)
\* Buffer.byteLength(raw)
ByteLength(str) ==
  IF str = <<>> THEN 0 ELSE CharBytes(Head(str)) + ByteLength(Tail(str))

\* exit status of the subprocess: -1 stands for null (not launched, or killed)
ExitStatuses == {0, 1, -1}

----------------------------------------------------------------------------
(* Upload URLs as text, and the key and bucket finishedUpload derives from  *)
(* them (lines 186-188).  A text is a sequence of tokens: the separators    *)
(* "/", "." and "?" and whole words between them.                           *)

\* a URL by its components: host labels, path segments (each a sequence of
\* dot-separated parts) and the query text
UrlParts ==
  << [host |-> <<"bucket1", "storage", "example">>,
      segs |-> << <<"abc123", "json">> >>, query |-> <<"sig=x">>],
     [host |-> <<"bucket2", "storage", "example">>,
      segs |-> << <<"dir">>, <<"abc123", "json">> >>, query |-> <<"sig=x">>],
     [host |-> <<"bucket3", "storage", "example">>,
      segs |-> << <<"abc123">> >>, query |-> <<>>],
     [host |-> <<"bucket4", "storage", "example">>,
      segs |-> << <<"a", "b">>, <<"c", "json">> >>, query |-> <<"sig=x">>] >>

\* the components of the URL with id u
PartsOf(u) == UrlParts[((u - 1) % Len(UrlParts)) + 1]

RECURSIVE Join(_, _)
Join(pieces, sep) ==
  IF pieces = <<>> THEN <<>>
  ELSE IF Len(pieces) = 1 THEN <<Head(pieces)>>
  ELSE <<Head(pieces), sep>> \o Join(Tail(pieces), sep)

RECURSIVE PathText(_)
PathText(segs) ==
  IF segs = <<>> THEN <<>> ELSE <<"/">> \o Join(Head(segs), ".") \o PathText(Tail(segs))

\* the URL string the service returns
UrlText(u) ==
  LET p == PartsOf(u)
  IN <<"https:", "/", "/">> \o Join(p.host, ".") \o PathText(p.segs)
       \o (IF p.query = <<>> THEN <<>> ELSE <<"?">> \o p.query)

RECURSIVE Split(_, _)
\* String.prototype.split(sep): the pieces between the separators
Split(str, sep) ==
  IF str = <<>> THEN << <<>> >>
  ELSE LET rest == Split(Tail(str), sep)
       IN IF Head(str) = sep THEN << <<>> >> \o rest
          ELSE << <<Head(str)>> \o Head(rest) >> \o Tail(rest)

RECURSIVE DropUntil(_, _)
\* the suffix of str that starts at its first token in stops
DropUntil(str, stops) ==
  IF str = <<>> \/ Head(str) \in stops THEN str ELSE DropUntil(Tail(str), stops)

RECURSIVE TakeUntil(_, _)
\* the prefix of str before its first token in stops
TakeUntil(str, stops) ==
  IF str = <<>> \/ Head(str) \in stops THEN <<>>
  ELSE <<Head(str)>> \o TakeUntil(Tail(str), stops)

\* new URL(url).pathname: what follows the authority, up to the query; "/"
\* when the URL has no path
Pathname(str) ==
  LET afterScheme == SubSeq(str, 4, Len(str))
      path == TakeUntil(DropUntil(afterScheme, {"/", "?"}), {"?"})
  IN IF path = <<>> THEN <<"/">> ELSE path

KeyOf_KeepSlash(str) == Split(Pathname(str), ".")[1]

\* line 187: pathname.substring(1).split('.')[0]
KeyOf(str) == Split(Tail(Pathname(str)), ".")[1]

\* line 188: url.split('/')[2]?.split('.')[0] ?? ''
BucketOf(str) ==
  LET pieces == Split(str, "/")
  IN IF Len(pieces) >= 3 THEN Split(pieces[3], ".")[1] ELSE <<>>

\* a request of the handshake as it goes out
Req(op, u, size, body, key, bucket) ==
  [op |-> op, url |-> u, size |-> size, body |-> body, key |-> key, bucket |-> bucket]

NoReq == Req("none", 0, 0, <<>>, <<>>, <<>>)

----------------------------------------------------------------------------
(* Configuration read at startup (lines 8-42) *)

\* TEST_MODE, whether SERVER_ID (env or argv) is a non-empty string,
\* PG_PASSWORD unset / set to "" / set to a value, PG_HOST unset or the local
\* socket path / another host
Configs ==
  [testMode : BOOLEAN, serverId : BOOLEAN,
   pgPassword : {"unset", "empty", "set"}, pgHost : {"local", "remote"}]

\* line 17: process.env.PG_PASSWORD ?? 'postgres' is an empty string only
\* when the variable is set to ""
PasswordFalsy(c) == c.pgPassword = "empty"

\* lines 31-40: the two checks that end the process with status 1
ConfigError(c) ==
  \/ ~c.testMode /\ ~c.serverId
  \/ PasswordFalsy(c) /\ c.pgHost # "local"

----------------------------------------------------------------------------
(* State *)

Ev(op, n) == [op |-> op, n |-> n]

BoolNum(b) == IF b THEN 1 ELSE 0

NoCall == [called |-> FALSE]

RECURSIVE SleepEvents(_)
SleepEvents(ms) ==
  IF ms = <<>> THEN <<>> ELSE <<Ev("sleep", Head(ms))>> \o SleepEvents(Tail(ms))

Init ==
  /\ pc = "startup"
  /\ cfg \in Configs
  /\ iter = 0
  /\ files = {}
  /\ tmpFile = 0
  /\ fileData = <<>>
  /\ raw = <<>>
  /\ url = 0
  /\ log = <<>>
  /\ adm = NoCall
  /\ tgt = NoCall
  /\ sent = NoReq

\* the block-scoped locals of one iteration go out of scope
EndIteration ==
  /\ pc' = "top"
  /\ tmpFile' = 0
  /\ fileData' = <<>>
  /\ raw' = <<>>
  /\ url' = 0
  /\ adm' = NoCall
  /\ tgt' = NoCall
  /\ sent' = NoReq


----------------------------------------------------------------------------
(* Startup and test mode, lines 8-77 *)

\* lines 31-44 and 291: the configuration checks, then either the test block
\* or loop()
Startup ==
  /\ pc = "startup"
  /\ pc' = IF ConfigError(cfg) THEN "exit1"
           ELSE IF cfg.testMode THEN "testRun" ELSE "top"
  /\ UNCHANGED <<cfg, iter, files, tmpFile, fileData, raw, url, log, adm, tgt, sent>>

\* lines 57-59: the one collection of test mode, to its own temp file
TestRunPgmetrics ==
  /\ pc = "testRun"
  /\ tmpFile' = 1
  /\ \E status \in ExitStatuses, written \in BOOLEAN, data \in Payloads :
       /\ status = 0 => written
       /\ files' = IF written THEN files \cup {1} ELSE files
       /\ fileData' = IF written THEN data ELSE <<>>
       /\ log' = Append(log, Ev("collect", status))
       /\ pc' = IF status # 0 THEN "testCatch" ELSE "testRead"
  /\ UNCHANGED <<cfg, iter, raw, url, adm, tgt, sent>>

\* lines 60-65: read the file and report its size
TestReadFile ==
  /\ pc = "testRead"
  /\ \E readOk \in BOOLEAN :
       /\ readOk => tmpFile \in files
       /\ raw' = IF readOk THEN fileData ELSE raw
       /\ log' = Append(log, Ev("read", BoolNum(readOk)))
       /\ pc' = IF readOk THEN "testUnlink" ELSE "testCatch"
  /\ UNCHANGED <<cfg, iter, files, tmpFile, fileData, url, adm, tgt, sent>>

TestUnlink_NoExit ==
  /\ pc = "testUnlink"
  /\ \E removed \in BOOLEAN :
       /\ removed => tmpFile \in files
       /\ files' = IF removed THEN files \ {tmpFile} ELSE files
       /\ log' = Append(log, Ev("unlink", BoolNum(removed)))
       /\ pc' = IF removed THEN "top" ELSE "testCatch"
  /\ UNCHANGED <<cfg, iter, tmpFile, fileData, raw, url, adm, tgt, sent>>

\* lines 66-67 and 75-76: unlinkSync inside the try, then process.exit(0)
TestUnlink ==
  /\ pc = "testUnlink"
  /\ \E removed \in BOOLEAN :
       /\ removed => tmpFile \in files
       /\ files' = IF removed THEN files \ {tmpFile} ELSE files
       /\ log' = Append(log, Ev("unlink", BoolNum(removed)))
       /\ pc' = IF removed THEN "exit0" ELSE "testCatch"
  /\ UNCHANGED <<cfg, iter, tmpFile, fileData, raw, url, adm, tgt, sent>>

\* lines 68-74: best-effort unlinkSync, then process.exit(1)
TestCatch ==
  /\ pc = "testCatch"
  /\ \E removed \in BOOLEAN :
       /\ removed => tmpFile \in files
       /\ files' = IF removed THEN files \ {tmpFile} ELSE files
       /\ log' = Append(log, Ev("unlink", BoolNum(removed)))
  /\ pc' = "exit1"
  /\ UNCHANGED <<cfg, iter, tmpFile, fileData, raw, url, adm, tgt, sent>>

----------------------------------------------------------------------------
(* loop(), lines 240-289: one action per statement that talks to the world *)

\* line 243: const ok = await shouldSend(); iteration number n begins here
ShouldSendStep(n) ==
  /\ pc = "top"
  /\ \E r \in AdmResponses, now \in Nows :
       LET res == shouldSend(r, now)
       IN /\ adm' = [called |-> TRUE, resp |-> r, now |-> now, res |-> res]
          /\ log' = <<Ev("admission", BoolNum(~r.fail))>> \o SleepEvents(res.sleeps)
          /\ pc' = IF res.exc THEN "catch" ELSE IF res.ok THEN "proceed" ELSE "denied"
  /\ iter' = n
  /\ UNCHANGED <<cfg, files, tmpFile, fileData, raw, url, tgt, sent>>

\* the admission check of the first MaxIter iterations
LoopShouldSend ==
  /\ iter < MaxIter
  /\ ShouldSendStep(iter + 1)

\* the admission check of every iteration: the counter that names the temp
\* files starts over after MaxIter iterations
LoopShouldSendAgain == ShouldSendStep((iter % MaxIter) + 1)

LoopDenied_NoContinue ==
  /\ pc = "denied"
  /\ log' = Append(log, Ev("sleep", DenyYield))
  /\ pc' = "proceed"
  /\ UNCHANGED <<cfg, iter, files, tmpFile, fileData, raw, url, adm, tgt, sent>>

LoopDenied_NoYield ==
  /\ pc = "denied"
  /\ log' = log
  /\ EndIteration
  /\ UNCHANGED <<cfg, iter, files>>

LoopDenied_YieldIfNoWait ==
  /\ pc = "denied"
  /\ log' = IF log[2].n = 0 THEN Append(log, Ev("sleep", DenyYield)) ELSE log
  /\ EndIteration
  /\ UNCHANGED <<cfg, iter, files>>

\* lines 244-247: if (!ok) { sleep 250; continue }
LoopDenied ==
  /\ pc = "denied"
  /\ log' = Append(log, Ev("sleep", DenyYield))
  /\ EndIteration
  /\ UNCHANGED <<cfg, iter, files>>

\* lines 249-254: the temp path of this attempt, unique by Date.now()
LoopProceed ==
  /\ pc = "proceed"
  /\ tmpFile' = iter
  /\ adm' = NoCall
  /\ pc' = "runPgmetrics"
  /\ UNCHANGED <<cfg, iter, files, fileData, raw, url, log, tgt, sent>>

\* lines 255-256 and 203-238: spawnSync('pgmetrics'); status 0 means the file
\* was written, any other status throws and the file may or may not exist
LoopRunPgmetrics ==
  /\ pc = "runPgmetrics"
  /\ \E status \in ExitStatuses, written \in BOOLEAN, data \in Payloads :
       /\ status = 0 => written
       /\ files' = IF written THEN files \cup {tmpFile} ELSE files
       /\ fileData' = IF written THEN data ELSE <<>>
       /\ log' = Append(log, Ev("collect", status))
       /\ pc' = IF status # 0 THEN "cleanup" ELSE "readFile"
  /\ UNCHANGED <<cfg, iter, tmpFile, raw, url, adm, tgt, sent>>

LoopCleanup_Swallow ==
  /\ pc = "cleanup"
  /\ \E removed \in BOOLEAN :
       /\ removed => tmpFile \in files
       /\ files' = IF removed THEN files \ {tmpFile} ELSE files
       /\ log' = Append(log, Ev("unlink", BoolNum(removed)))
  /\ pc' = "readFile"
  /\ UNCHANGED <<cfg, iter, tmpFile, fileData, raw, url, adm, tgt, sent>>

\* lines 257-262: best-effort unlinkSync (its own failure is swallowed), then
\* the collection error is rethrown
LoopCleanup ==
  /\ pc = "cleanup"
  /\ \E removed \in BOOLEAN :
       /\ removed => tmpFile \in files
       /\ files' = IF removed THEN files \ {tmpFile} ELSE files
       /\ log' = Append(log, Ev("unlink", BoolNum(removed)))
  /\ pc' = "catch"
  /\ UNCHANGED <<cfg, iter, tmpFile, fileData, raw, url, adm, tgt, sent>>

\* line 264: readFileSync throws when the file is missing or unreadable
LoopReadFile ==
  /\ pc = "readFile"
  /\ \E readOk \in BOOLEAN :
       /\ readOk => tmpFile \in files
       /\ raw' = IF readOk THEN fileData ELSE raw
       /\ log' = Append(log, Ev("read", BoolNum(readOk)))
       /\ pc' = IF readOk THEN "unlink" ELSE "catch"
  /\ UNCHANGED <<cfg, iter, files, tmpFile, fileData, url, adm, tgt, sent>>

LoopUnlink_Swallow ==
  /\ pc = "unlink"
  /\ \E removed \in BOOLEAN :
       /\ removed => tmpFile \in files
       /\ files' = IF removed THEN files \ {tmpFile} ELSE files
       /\ log' = Append(log, Ev("unlink", BoolNum(removed)))
       /\ pc' = "getUploadUrl"
  /\ UNCHANGED <<cfg, iter, tmpFile, fileData, raw, url, adm, tgt, sent>>

\* line 265: unlinkSync throws when the file cannot be removed
LoopUnlink ==
  /\ pc = "unlink"
  /\ \E removed \in BOOLEAN :
       /\ removed => tmpFile \in files
       /\ files' = IF removed THEN files \ {tmpFile} ELSE files
       /\ log' = Append(log, Ev("unlink", BoolNum(removed)))
       /\ pc' = IF removed THEN "getUploadUrl" ELSE "catch"
  /\ UNCHANGED <<cfg, iter, tmpFile, fileData, raw, url, adm, tgt, sent>>

LoopGetUploadUrl_CharLength ==
  /\ pc = "getUploadUrl"
  /\ \E r \in TgtResponses :
       LET size == Len(raw)
           res == getUploadUrl(r)
       IN /\ tgt' = [called |-> TRUE, resp |-> r, size |-> size, res |-> res]
          /\ log' = Append(log, Ev("target", size))
          /\ sent' = Req("target", 0, size, <<>>, <<>>, <<>>)
          /\ url' = res.url
          /\ pc' = IF res.exc THEN "catch" ELSE IF res.url = 0 THEN "noUrl" ELSE "gotUrl"
  /\ UNCHANGED <<cfg, iter, files, tmpFile, fileData, raw, adm>>

\* lines 266-270: size = Buffer.byteLength(raw); url = await getUploadUrl(size)
LoopGetUploadUrl ==
  /\ pc = "getUploadUrl"
  /\ \E r \in TgtResponses :
       LET size == ByteLength(raw)
           res == getUploadUrl(r)
       IN /\ tgt' = [called |-> TRUE, resp |-> r, size |-> size, res |-> res]
          /\ log' = Append(log, Ev("target", size))
          /\ sent' = Req("target", 0, size, <<>>, <<>>, <<>>)
          /\ url' = res.url
          /\ pc' = IF res.exc THEN "catch" ELSE IF res.url = 0 THEN "noUrl" ELSE "gotUrl"
  /\ UNCHANGED <<cfg, iter, files, tmpFile, fileData, raw, adm>>

LoopNoUrl_Goes_On ==
  /\ pc = "noUrl"
  /\ log' = Append(log, Ev("sleep", ShortWait))
  /\ pc' = "gotUrl"
  /\ UNCHANGED <<cfg, iter, files, tmpFile, fileData, raw, url, adm, tgt, sent>>

LoopNoUrl_Retry ==
  /\ pc = "noUrl"
  /\ log' = Append(log, Ev("sleep", ShortWait))
  /\ pc' = "getUploadUrl"
  /\ UNCHANGED <<cfg, iter, files, tmpFile, fileData, raw, url, adm, tgt, sent>>

\* lines 271-274: if (!url) { sleep 1000; continue }
LoopNoUrl ==
  /\ pc = "noUrl"
  /\ log' = Append(log, Ev("sleep", ShortWait))
  /\ EndIteration
  /\ UNCHANGED <<cfg, iter, files>>

LoopUploadFile_SkipConfirm ==
  /\ pc = "gotUrl"
  /\ \E r \in PlainResponses :
       /\ log' = log \o <<Ev("url", url), Ev("put", url), Ev("uploaded", BoolNum(uploadFile(r)))>>
       /\ pc' = IF uploadFile(r) THEN "finishedUpload" ELSE "endSleep"
  /\ sent' = Req("put", url, 0, raw, <<>>, <<>>)
  /\ tgt' = NoCall
  /\ UNCHANGED <<cfg, iter, files, tmpFile, fileData, raw, url, adm>>

\* lines 275-278: one PUT of raw to url, its outcome is only logged
LoopUploadFile ==
  /\ pc = "gotUrl"
  /\ \E r \in PlainResponses :
       log' = log \o <<Ev("url", url), Ev("put", url), Ev("uploaded", BoolNum(uploadFile(r)))>>
  /\ sent' = Req("put", url, 0, raw, <<>>, <<>>)
  /\ tgt' = NoCall
  /\ pc' = "finishedUpload"
  /\ UNCHANGED <<cfg, iter, files, tmpFile, fileData, raw, url, adm>>

\* lines 280-281: one confirmation for url, its outcome is only logged
LoopFinishedUpload ==
  /\ pc = "finishedUpload"
  /\ \E r \in PlainResponses :
       log' = log \o <<Ev("confirm", url), Ev("finished", BoolNum(finishedUpload(r)))>>
  /\ sent' = Req("confirm", url, 0, <<>>, KeyOf(UrlText(url)), BucketOf(UrlText(url)))
  /\ pc' = "endSleep"
  /\ UNCHANGED <<cfg, iter, files, tmpFile, fileData, raw, url, adm, tgt>>

LoopEndSleep_Return ==
  /\ pc = "endSleep"
  /\ log' = Append(log, Ev("sleep", ShortWait))
  /\ pc' = "returned"
  /\ UNCHANGED <<cfg, iter, files, tmpFile, fileData, raw, url, adm, tgt, sent>>

\* line 283: sleep 1000 at the end of a completed handshake
LoopEndSleep ==
  /\ pc = "endSleep"
  /\ log' = Append(log, Ev("sleep", ShortWait))
  /\ EndIteration
  /\ UNCHANGED <<cfg, iter, files>>

LoopCatch_Rethrow ==
  /\ pc = "catch"
  /\ log' = Append(log, Ev("catch", 0))
  /\ pc' = "thrown"
  /\ UNCHANGED <<cfg, iter, files, tmpFile, fileData, raw, url, adm, tgt, sent>>

\* lines 284-287: catch (err) { log; sleep 1000 } and the while goes round
LoopCatch ==
  /\ pc = "catch"
  /\ log' = log \o <<Ev("catch", 0), Ev("sleep", ShortWait)>>
  /\ EndIteration
  /\ UNCHANGED <<cfg, iter, files>>

Next ==
  \/ Startup
  \/ TestRunPgmetrics
  \/ TestReadFile
  \/ TestUnlink
  \/ TestCatch
  \/ LoopShouldSend
  \/ LoopDenied
  \/ LoopProceed
  \/ LoopRunPgmetrics
  \/ LoopCleanup
  \/ LoopReadFile
  \/ LoopUnlink
  \/ LoopGetUploadUrl
  \/ LoopNoUrl
  \/ LoopUploadFile
  \/ LoopFinishedUpload
  \/ LoopEndSleep
  \/ LoopCatch

PcValues ==
  {"startup", "testRun", "testRead", "testUnlink", "testCatch", "exit0", "exit1",
   "top", "denied", "proceed", "runPgmetrics", "cleanup", "readFile", "unlink",
   "getUploadUrl", "noUrl", "gotUrl", "finishedUpload", "endSleep", "catch",
   "returned", "thrown"}

Spec == Init /\ [][Next]_vars

\* the same program with no bound on the number of iterations
LiveNext ==
  \/ Startup
  \/ TestRunPgmetrics
  \/ TestReadFile
  \/ TestUnlink
  \/ TestCatch
  \/ LoopShouldSendAgain
  \/ LoopDenied
  \/ LoopProceed
  \/ LoopRunPgmetrics
  \/ LoopCleanup
  \/ LoopReadFile
  \/ LoopUnlink
  \/ LoopGetUploadUrl
  \/ LoopNoUrl
  \/ LoopUploadFile
  \/ LoopFinishedUpload
  \/ LoopEndSleep
  \/ LoopCatch

\* the statements at which the program waits for a call or a sleep to return
ActivePcs ==
  {"startup", "testRun", "testRead", "testUnlink", "testCatch",
   "top", "denied", "proceed", "runPgmetrics", "cleanup", "readFile", "unlink",
   "getUploadUrl", "noUrl", "gotUrl", "finishedUpload", "endSleep", "catch"}

\* control leaves the current statement
Returns == pc \in ActivePcs /\ pc' \in PcValues \ {pc}

\* every external call and every sleep returns: control never stays for ever
\* at a statement of the program
LiveSpec == Init /\ [][LiveNext]_vars /\ WF_pc(Returns)

TypeOK ==
  /\ pc \in PcValues
  /\ iter \in 0..MaxIter
  /\ files \subseteq 1..MaxIter
  /\ tmpFile \in 0..MaxIter
  /\ fileData \in Payloads
  /\ raw \in Payloads
  /\ url \in 0..NumUrls


----------------------------------------------------------------------------
(* Reading the log of an iteration.  log is reset when an admission check  *)
(* is issued, so in a state with pc = "top" and a non-empty log, log holds *)
(* everything the iteration that just ended did.                           *)

Has(op) == \E i \in 1..Len(log) : log[i].op = op

HasEv(op, n) == \E i \in 1..Len(log) : log[i] = Ev(op, n)

Count(op) == Cardinality({i \in 1..Len(log) : log[i].op = op})

LastEv == log[Len(log)]

IterationDone == pc = "top" /\ log # <<>>

\* shouldSend slept, that is, it returned a Deny
Denied == Len(log) >= 2 /\ log[2].op = "sleep"

CollectFailed == ~cfg.testMode /\ \E i \in 1..Len(log) : log[i].op = "collect" /\ log[i].n # 0

\* a throw at the level of the loop body: collection, read or delete failed
BodyThrew == CollectFailed \/ HasEv("read", 0) \/ (~CollectFailed /\ HasEv("unlink", 0))

NoTarget == Has("target") /\ ~Has("url")

EndsWith(tail) ==
  /\ Len(log) >= Len(tail)
  /\ SubSeq(log, Len(log) - Len(tail) + 1, Len(log)) = tail

----------------------------------------------------------------------------
(* Claims *)

\* C1 (as stated): whenever a step of an iteration failed (admission check,
\* collection, reading or deleting the temp file, target request, transfer,
\* confirmation), the failure went through the handler at the loop boundary
\* and the iteration ended with the 1 s wait.
C1_EveryFailureCaughtAtBoundary ==
  IterationDone
    /\ (HasEv("admission", 0) \/ BodyThrew \/ NoTarget
          \/ HasEv("uploaded", 0) \/ HasEv("finished", 0))
    => Has("catch") /\ LastEv = Ev("sleep", ShortWait)

\* C1 (amended): loop() never returns or throws.  A failure of collection,
\* of reading or of deleting the temp file is caught at the loop boundary and
\* followed by the 1 s wait; a failed admission check is a Deny followed by
\* its own wait and the 250 ms yield; a failed target request, transfer or
\* confirmation ends the iteration with the 1 s wait without passing the
\* handler at the loop boundary.  Every iteration ends at the loop head.
C1_LoopNeverExits ==
  /\ pc \notin {"returned", "thrown"}
  /\ pc = "catch" => BodyThrew
  /\ IterationDone =>
       /\ BodyThrew <=> Has("catch")
       /\ BodyThrew => EndsWith(<<Ev("catch", 0), Ev("sleep", ShortWait)>>)
       /\ Denied => Len(log) = 3 /\ LastEv = Ev("sleep", DenyYield)
       /\ ~Denied => LastEv = Ev("sleep", ShortWait)

C1_Witness ==
  IterationDone /\ HasEv("read", 0) /\ Has("catch") /\ LastEv = Ev("sleep", ShortWait)

\* C2: whenever the loop is about to issue an admission check, the temp file
\* of the iteration that just ended no longer exists, on every exit path of
\* that iteration.  A file whose unlinkSync was attempted and itself failed
\* is not counted: the claim is stated for the paths on which the code could
\* have removed the file.
C2_NoStaleTempFile == IterationDone /\ ~HasEv("unlink", 0) => iter \notin files

\* C3: an iteration whose admission outcome is Deny (any non-2xx status or a
\* transport failure) does nothing but the admission check and its sleeps:
\* no collection, target request, transfer or confirmation.
C3_DenySkipsWork ==
  /\ adm.called /\ (adm.resp.fail \/ ~Ok(adm.resp.status)) => pc = "denied" /\ Denied
  /\ Denied =>
       /\ pc \in {"denied", "top"}
       /\ \A i \in 1..Len(log) : log[i].op \in {"admission", "sleep"}

C3_Witness ==
  IterationDone /\ log = <<Ev("admission", 1), Ev("sleep", LongWait), Ev("sleep", DenyYield)>>

\* C4: shouldSend never throws, and returns true exactly when fetch resolved
\* with a status in 200..299; every other status, a transport failure and a
\* body that does not parse give false.
C4_ProceedIffSuccessStatus ==
  adm.called =>
    /\ ~adm.res.exc
    /\ adm.res.ok <=> (~adm.resp.fail /\ adm.resp.status >= 200 /\ adm.resp.status <= 299)
    /\ adm.res.ok <=> pc = "proceed"
    /\ ~adm.res.ok <=> pc = "denied"
    /\ ~adm.res.ok <=> Len(adm.res.sleeps) = 1

C4_Witness ==
  /\ adm.called /\ ~adm.resp.fail /\ adm.resp.status = 404
  /\ adm.resp.body.kind = "null" /\ ~adm.res.ok /\ pc = "denied"


\* C5: in an iteration that obtained an upload URL u, everything after the
\* target request is: one PUT to u, one confirmation for u (whatever the PUT
\* returned), the 1 s wait, and the next iteration; u is held by no later
\* iteration.
C5_OneTransferOneConfirm ==
  /\ tgt.called /\ tgt.res.url # 0 => pc = "gotUrl" /\ url = tgt.res.url
  /\ pc \in {"gotUrl", "finishedUpload", "endSleep"} => url # 0
  /\ pc = "top" => url = 0
  /\ Count("put") <= 1 /\ Count("confirm") <= 1
  /\ pc # "top" =>
       \A i \in 1..Len(log) : log[i].op \in {"url", "put", "confirm"} => log[i].n = url
  /\ pc = "finishedUpload" => Count("put") = 1 /\ Count("confirm") = 0
  /\ pc = "endSleep" => Count("put") = 1 /\ Count("confirm") = 1
  /\ IterationDone /\ Has("url") =>
       /\ Count("url") = 1
       /\ Len(log) >= 7 /\ log[Len(log) - 6].op = "target"
       /\ \E u \in Urls, b \in {0, 1}, c \in {0, 1} :
            EndsWith(<<Ev("url", u), Ev("put", u), Ev("uploaded", b),
                       Ev("confirm", u), Ev("finished", c), Ev("sleep", ShortWait)>>)

C5_Witness ==
  IterationDone /\ HasEv("uploaded", 0) /\ HasEv("confirm", 2) /\ HasEv("put", 2)

\* C6: when getUploadUrl returns no URL (transport failure, 403, 404, other
\* non-2xx status, or a 2xx body without a url), the iteration makes no
\* transfer and no confirmation, sleeps 1 s and ends, and the handler at the
\* loop boundary is not entered.
C6_NoTargetNoHandshake ==
  /\ tgt.called =>
       /\ ~tgt.res.exc
       /\ (tgt.resp.fail \/ ~Ok(tgt.resp.status)
             \/ ~(tgt.resp.body.kind = "object" /\ tgt.resp.body.hasUrl))
          => tgt.res.url = 0
       /\ tgt.res.url = 0 <=> pc = "noUrl"
  /\ pc = "noUrl" => ~Has("put") /\ ~Has("confirm") /\ ~Has("catch")
  /\ IterationDone /\ NoTarget =>
       /\ LastEv = Ev("sleep", ShortWait)
       /\ log[Len(log) - 1].op = "target"
       /\ ~Has("put") /\ ~Has("confirm") /\ ~Has("catch")

C6_Witness == IterationDone /\ NoTarget /\ LastEv = Ev("sleep", ShortWait)

\* C7: when collection fails (exit status not 0, or no launch), the iteration
\* makes no target request, transfer or confirmation; it attempts the unlink
\* of the temp file, passes the handler, sleeps 1 s and ends.
C7_CollectFailureRetries ==
  CollectFailed =>
    /\ pc \in {"cleanup", "catch", "top"}
    /\ ~Has("read") /\ ~Has("target") /\ ~Has("put") /\ ~Has("confirm")
    /\ pc # "cleanup" => Count("unlink") = 1
    /\ pc = "top" =>
         /\ Len(log) = 5
         /\ log[1] = Ev("admission", 1)
         /\ log[2].op = "collect"
         /\ log[3].op = "unlink"
         /\ log[4] = Ev("catch", 0)
         /\ log[5] = Ev("sleep", ShortWait)

C7_Witness == IterationDone /\ HasEv("collect", -1) /\ HasEv("unlink", 0)

\* C8: a 429 response whose nextCollectionAt is at or before the current time
\* gives a wait of exactly 0.
C8_PastTimestampWaitsZero ==
  adm.called /\ ~adm.resp.fail /\ adm.resp.status = 429
    /\ adm.resp.body.kind = "object" /\ adm.resp.body.hasNca
    /\ adm.resp.body.nca <= adm.now
    => adm.res.sleeps = <<0>>

\* C9: the wait of a Deny is never negative, and a 429 response carrying
\* nextCollectionAt = now + d with d > 0 waits exactly d.
C9_WaitNonNegative ==
  adm.called /\ ~adm.res.ok =>
    /\ \A i \in 1..Len(adm.res.sleeps) : adm.res.sleeps[i] >= 0
    /\ (~adm.resp.fail /\ adm.resp.status = 429 /\ adm.resp.body.kind = "object"
          /\ adm.resp.body.hasNca /\ adm.resp.body.nca > adm.now)
       => adm.res.sleeps = <<adm.resp.body.nca - adm.now>>

C9_Witness ==
  /\ adm.called /\ ~adm.resp.fail /\ adm.resp.status = 429
  /\ adm.resp.body.kind = "object" /\ adm.resp.body.hasNca
  /\ adm.resp.body.nca = adm.now + 2 /\ adm.res.sleeps = <<2>>
  /\ log = <<Ev("admission", 1), Ev("sleep", 2)>>

\* C10: a 403 or 404 admission response, whatever its body, waits the fixed
\* 30 s.
C10_ForbiddenWaitsLong ==
  adm.called /\ ~adm.resp.fail /\ adm.resp.status \in {403, 404}
    => adm.res.sleeps = <<LongWait>>


\* the steps of the iteration in the order they were taken, sleeps left out
Steps == SelectSeq(log, LAMBDA e : e.op # "sleep")

\* the place of a step in one iteration
Rank(op) ==
  CASE op = "admission" -> 0
    [] op = "collect" -> 1
    [] op = "read" -> 2
    [] op = "unlink" -> 3
    [] op = "target" -> 4
    [] op = "url" -> 5
    [] op = "put" -> 6
    [] op = "uploaded" -> 7
    [] op = "confirm" -> 8
    [] op = "finished" -> 9
    [] OTHER -> 10

\* loop() has been called (and in the model may have returned or thrown)
InLoop ==
  pc \notin {"startup", "testRun", "testRead", "testUnlink", "testCatch", "exit0", "exit1"}

\* C11: the loop is strictly sequential.  Within an iteration every step is
\* taken at most once and in the fixed order admission, collection, read,
\* delete, target request, transfer, confirmation; a collection starts only
\* when no snapshot and no upload target are held, a target request only when
\* no target is held, and at the loop head the snapshot and the target of the
\* iteration that ended are gone.
C11_StrictlySequential ==
  /\ InLoop =>
       \A i, j \in 1..Len(Steps) : i < j => Rank(Steps[i].op) < Rank(Steps[j].op)
  /\ pc = "top" => raw = <<>> /\ fileData = <<>> /\ url = 0 /\ tmpFile = 0 /\ sent = NoReq
  /\ pc \in {"proceed", "runPgmetrics"} => raw = <<>> /\ url = 0 /\ sent = NoReq
  /\ pc = "getUploadUrl" => url = 0 /\ sent = NoReq
  /\ sent.op = "put" => sent.url = url /\ sent.body = raw
  /\ sent.op = "confirm" => sent.url = url

C11_Witness == IterationDone /\ iter = 2 /\ Has("collect") /\ Has("finished")

\* C12: once loop() runs, and as long as every call and sleep returns, every
\* state of the loop leads to the loop head and the loop head leads to a new
\* admission check: admission is retried for ever, there is no terminal state.
C12_AdmissionRetriedForever ==
  /\ InLoop ~> (pc = "top")
  /\ (pc = "top") ~> adm.called

\* an admission check after more than MaxIter iterations, the last one denied
C12_Witness == adm.called /\ iter = 1 /\ files # {} /\ ~adm.res.ok


\* C13: with PG_PASSWORD not set and PG_HOST not the local socket path, the
\* process exits with status 1 at startup, before any collection or request.
C13_MissingPasswordIsFatal ==
  cfg.pgPassword = "unset" /\ cfg.pgHost = "remote" /\ pc # "startup"
    => pc = "exit1" /\ log = <<>>

NetworkOps == {"admission", "target", "url", "put", "uploaded", "confirm", "finished"}

Exited == pc \in {"exit0", "exit1"}

\* C14 (as stated): in test mode the process runs exactly one collection,
\* makes no request, never enters the loop, has attempted the delete of the
\* temp file before it exits, and exits 0 exactly when the collection and the
\* read succeeded.  Stated for the runs that pass the password check of
\* startup, which ends the process before test mode begins.
C14_TestModeExitStatus ==
  cfg.testMode =>
    /\ ~InLoop
    /\ \A i \in 1..Len(log) : log[i].op \notin NetworkOps
    /\ Exited /\ ~(cfg.pgPassword = "empty" /\ cfg.pgHost = "remote") =>
         /\ Count("collect") = 1
         /\ Has("unlink")
         /\ pc = "exit0" <=> (HasEv("collect", 0) /\ HasEv("read", 1))

\* C14 (amended): in test mode the process makes no request and never enters
\* the loop.  When the password check at startup has not already ended it, it
\* runs exactly one collection, has attempted the delete of the temp file
\* before it exits, and exits 0 exactly when the collection, the read and the
\* delete of the temp file all succeeded, 1 otherwise.
C14_TestModeRunsOnce ==
  cfg.testMode =>
    /\ ~InLoop
    /\ \A i \in 1..Len(log) : log[i].op \notin NetworkOps
    /\ ~adm.called /\ ~tgt.called /\ sent = NoReq
    /\ Count("collect") <= 1
    /\ Exited /\ cfg.pgPassword = "empty" /\ cfg.pgHost = "remote" =>
         pc = "exit1" /\ log = <<>>
    /\ Exited /\ ~(cfg.pgPassword = "empty" /\ cfg.pgHost = "remote") =>
         /\ Count("collect") = 1
         /\ Has("unlink")
         /\ pc = "exit0" <=>
              log = <<Ev("collect", 0), Ev("read", 1), Ev("unlink", 1)>>

C14_Witness ==
  /\ cfg.testMode /\ pc = "exit1"
  /\ HasEv("collect", 0) /\ HasEv("read", 1) /\ HasEv("unlink", 0)

\* C15 (as stated): the key sent on confirmation is the first path segment of
\* the URL cut before its first dot, the bucket is the first label of the
\* host, also for a path of more than one segment.
C15_KeyIsFirstSegment ==
  sent.op = "confirm" =>
    /\ sent.key = <<PartsOf(sent.url).segs[1][1]>>
    /\ sent.bucket = <<PartsOf(sent.url).host[1]>>

RECURSIVE PathBeforeDot(_)
\* the path without its leading slash, cut before its first dot
PathBeforeDot(segs) ==
  IF segs = <<>> THEN <<>>
  ELSE IF Len(Head(segs)) > 1 \/ Len(segs) = 1 THEN <<Head(segs)[1]>>
  ELSE <<Head(segs)[1], "/">> \o PathBeforeDot(Tail(segs))

\* C15 (amended): the key sent on confirmation is the whole URL path without
\* its leading slash, cut before its first dot (the first segment cut before
\* its dot only when no earlier segment is dot-free); the bucket is the first
\* label of the host.  For https://bucket1.storage.example/abc123.json?sig=x
\* they are abc123 and bucket1.
C15_KeyIsPathBeforeDot ==
  sent.op = "confirm" =>
    /\ sent.key = PathBeforeDot(PartsOf(sent.url).segs)
    /\ sent.bucket = <<PartsOf(sent.url).host[1]>>
    /\ sent.url = 1 => sent.key = <<"abc123">> /\ sent.bucket = <<"bucket1">>

C15_Witness ==
  sent.op = "confirm" /\ sent.url = 2 /\ sent.key = <<"dir", "/", "abc123">>


\* the wait hint of an admission response: its nextCollectionAt, -1 for none
HintOf(r) == IF r.body.kind = "object" /\ r.body.hasNca THEN r.body.nca ELSE -1

\* the wait the code gives to a status and a wait hint at a time, as it does
\* for every response whose body is an object
WaitByStatusAndHint(fail, status, hint, now) ==
  IF ~fail /\ status \in {403, 404} THEN LongWait
  ELSE IF (fail \/ status = 429) /\ hint > 0 THEN Max(0, hint - now)
  ELSE DefaultWait

\* C16: the handling of a Deny depends only on the status and the wait hint
\* of the current response (and the clock), whatever the earlier iterations
\* did: the wait is one function of them, and the next step is the 250 ms
\* yield and a new admission check.
C16_DenyDependsOnStatusAndHint ==
  adm.called /\ ~adm.res.ok =>
    /\ adm.res.sleeps =
         <<WaitByStatusAndHint(adm.resp.fail, adm.resp.status, HintOf(adm.resp), adm.now)>>
    /\ pc = "denied"

RECURSIVE SumSleeps(_)
\* the time slept in a sequence of events
SumSleeps(evs) ==
  IF evs = <<>> THEN 0
  ELSE (IF Head(evs).op = "sleep" THEN Head(evs).n ELSE 0) + SumSleeps(Tail(evs))

\* C17 (as stated): after a Deny that carries a wait w the loop pauses w in
\* all before the next admission check; the 250 ms yield is added only when
\* the decision carries no wait.
C17_DenyPausesExactlyWait ==
  IterationDone /\ Denied /\ log[2].n > 0 => SumSleeps(log) = log[2].n

\* C17 (amended): after every Deny the loop has slept the wait w of the
\* decision (inside shouldSend) and then a further 250 ms, whatever w is: the
\* pause before the next admission check is w + 250 ms.
C17_DenyPausesWaitPlusYield ==
  /\ pc = "denied" => log = <<Ev("admission", BoolNum(~adm.resp.fail)), Ev("sleep", adm.res.sleeps[1])>>
  /\ IterationDone /\ Denied =>
       /\ Len(log) = 3
       /\ log[3] = Ev("sleep", DenyYield)
       /\ SumSleeps(log) = log[2].n + DenyYield

C17_Witness ==
  IterationDone /\ log = <<Ev("admission", 0), Ev("sleep", DefaultWait), Ev("sleep", DenyYield)>>

\* position of the first event with this op in the log, 0 when there is none
FirstAt(op) ==
  IF Has(op) THEN CHOOSE i \in 1..Len(log) :
                    log[i].op = op /\ \A j \in 1..(i - 1) : log[j].op # op
  ELSE 0

\* C18: whenever a target request, a transfer or a confirmation is issued or
\* has been issued in an iteration, the temp file of that iteration has been
\* read and removed before; after a failed read or a failed delete the
\* iteration issues none of them.
C18_DeleteBeforeNetwork ==
  /\ pc \in {"getUploadUrl", "noUrl", "gotUrl", "finishedUpload", "endSleep"} =>
       tmpFile = iter /\ tmpFile \notin files
  /\ InLoop /\ (Has("target") \/ Has("put") \/ Has("confirm")) =>
       /\ iter \notin files
       /\ HasEv("read", 1) /\ HasEv("unlink", 1)
       /\ FirstAt("read") < FirstAt("unlink") /\ FirstAt("unlink") < FirstAt("target")
       /\ Has("put") => FirstAt("target") < FirstAt("put")
       /\ Has("confirm") => FirstAt("put") < FirstAt("confirm")
  /\ InLoop /\ (HasEv("read", 0) \/ HasEv("unlink", 0)) =>
       /\ ~Has("target") /\ ~Has("put") /\ ~Has("confirm")
       /\ sent = NoReq

\* a confirmation in the second iteration, while the file of the first one
\* was left behind
C18_Witness ==
  pc = "endSleep" /\ Has("confirm") /\ iter = 2 /\ files = {1}

\* C19: between two admission requests the loop sleeps at least 250 ms, and
\* at least 1 s when a collection was started in between.
C19_NeverBusySpins ==
  IterationDone =>
    /\ SumSleeps(log) >= DenyYield
    /\ LastEv.op = "sleep"
    /\ Has("collect") => SumSleeps(log) >= ShortWait

C19_Witness ==
  IterationDone /\ log = <<Ev("admission", 1), Ev("sleep", 0), Ev("sleep", DenyYield)>>

\* C20: the body of the PUT is the snapshot this iteration collected and
\* read, and the size declared in the target request of the iteration is the
\* byte length of that body.
C20_PayloadIsThisSnapshot ==
  /\ sent.op = "target" =>
       /\ HasEv("collect", 0) /\ tmpFile = iter
       /\ raw = fileData
       /\ sent.size = ByteLength(fileData)
       /\ tgt.called /\ tgt.size = sent.size
  /\ sent.op = "put" =>
       /\ HasEv("collect", 0) /\ tmpFile = iter
       /\ sent.body = fileData
       /\ Count("target") = 1 /\ HasEv("target", ByteLength(sent.body))

C20_Witness ==
  sent.op = "put" /\ sent.body = <<"e2">> /\ HasEv("target", 2) /\ iter = 2


====
